---- MODULE Spec2Model ----
(***************************************************************************)
(* Model of the media-ingestion pipeline of archivion/backend-GCP:         *)
(*   - processMedia        (upload processor function, storage trigger)    *)
(*   - extractAudioHandler (video audio extract function, queue trigger)   *)
(* Every await of the handlers is one step of an invocation; the metadata  *)
(* store, the fan-out queue and the derived-audio bucket are shared.       *)
(***************************************************************************)
EXTENDS Integers, Sequences, FiniteSets, TLC

\* ------------------------------------------------------------------------
\* Bounds of the model
\* ------------------------------------------------------------------------
\* Total number of processMedia invocations started in one behaviour.
MaxInvocations == 2
\* The same, in the specification of concurrent invocations.
MaxRaceInvocations == 3
\* The same, in the specification of the video path alone.
MaxVideoInvocations == 1
\* Longest list of raw annotations in the specification of the video path.
MaxAnnotations == 3
\* Longest list of raw annotations / recognition results an external
\* service returns.
MaxResults == 2
\* Video invocations feeding the queue in the specification of the
\* extraction function.
MaxExtractInvocations == 2
\* Invocations of the upload processor in the specification of retried
\* and redelivered video notifications.
MaxRetryInvocations == 4

\* ------------------------------------------------------------------------
\* JavaScript values
\* ------------------------------------------------------------------------
\* undefined: an absent property of the event or of a service reply.
Undefined == "<undefined>"
\* null, as returned by base64ToHex for a missing hash.
Null == "<null>"

\* JS truthiness of a string-or-undefined value (used by !str, a || b).
Truthy(v) == v \notin {Undefined, Null, ""}

\* String.prototype.startsWith
StartsWith(s, prefix) ==
    /\ Len(s) >= Len(prefix)
    /\ SubSeq(s, 1, Len(prefix)) = prefix

\* String.prototype.includes
Includes(s, part) ==
    \E i \in 1..(Len(s) - Len(part) + 1) : SubSeq(s, i, i + Len(part) - 1) = part

\* The character of s at position i (1-based), as a one-character string.
CharAt(s, i) == SubSeq(s, i, i)

\* Position of the last occurrence of character c in s, 0 when there is none
\* (String.prototype.lastIndexOf, 1-based).
LastIndexOf(s, c) ==
    LET hits == {i \in 1..Len(s) : CharAt(s, i) = c}
    IN  IF hits = {} THEN 0 ELSE CHOOSE i \in hits : \A j \in hits : j <= i

\* White space removed by String.prototype.trim (the characters the model uses).
WhiteSpace == {" ", "\n"}

\* String.prototype.trim
Trim(s) ==
    LET keep == {i \in 1..Len(s) : CharAt(s, i) \notin WhiteSpace}
    IN  IF keep = {} THEN ""
        ELSE LET lo == CHOOSE i \in keep : \A j \in keep : i <= j
                 hi == CHOOSE i \in keep : \A j \in keep : j <= i
             IN  SubSeq(s, lo, hi)

\* Array.prototype.join(sep) on a sequence of strings.
RECURSIVE Join(_, _)
Join(parts, sep) ==
    IF parts = <<>> THEN ""
    ELSE IF Len(parts) = 1 THEN parts[1]
    ELSE parts[1] \o sep \o Join(Tail(parts), sep)

\* Array.prototype.filter(Boolean) on a sequence of descriptions: drops the
\* empty string and undefined.
RECURSIVE FilterBoolean(_)
FilterBoolean(xs) ==
    IF xs = <<>> THEN <<>>
    ELSE IF Truthy(xs[1]) THEN <<xs[1]>> \o FilterBoolean(Tail(xs))
    ELSE FilterBoolean(Tail(xs))

\* Array.prototype.indexOf (1-based; only called with a member of s).
IndexOf(s, v) == CHOOSE i \in 1..Len(s) : s[i] = v /\ \A j \in 1..(i - 1) : s[j] # v

\* .filter((v, i, s) => s.indexOf(v) === i): keeps the first occurrence of
\* each value, in order.
RECURSIVE KeepFirstFrom(_, _)
KeepFirstFrom(s, i) ==
    IF i > Len(s) THEN <<>>
    ELSE IF IndexOf(s, s[i]) = i THEN <<s[i]>> \o KeepFirstFrom(s, i + 1)
    ELSE KeepFirstFrom(s, i + 1)

FilterFirstOccurrence(s) == KeepFirstFrom(s, 1)

\* ------------------------------------------------------------------------
\* Identifier derivation
\* ------------------------------------------------------------------------
Base64Alphabet == "ABCDEFGHIJKLMNOPQRSTUVWXYZabcdefghijklmnopqrstuvwxyz0123456789+/"
HexDigits == "0123456789abcdef"

\* The base64 alphabet as a table: character -> position.
Base64Table ==
    LET chars == [i \in 1..Len(Base64Alphabet) |-> CharAt(Base64Alphabet, i)]
    IN  [c \in {chars[i] : i \in DOMAIN chars} |-> CHOOSE i \in DOMAIN chars : chars[i] = c]

IsBase64Char(c) == c \in DOMAIN Base64Table
Base64Value(c) == Base64Table[c] - 1

\* The 6-bit values of a base64 string, up to its padding; characters outside
\* the alphabet are skipped, as Buffer.from(str, 'base64') does.
RECURSIVE Sextets(_, _)
Sextets(str, i) ==
    IF i > Len(str) \/ CharAt(str, i) = "=" THEN <<>>
    ELSE IF IsBase64Char(CharAt(str, i))
         THEN <<Base64Value(CharAt(str, i))>> \o Sextets(str, i + 1)
         ELSE Sextets(str, i + 1)

\* Bytes encoded by a sequence of 6-bit values: 4 values give 3 bytes, a
\* final group of 3 gives 2 bytes, of 2 gives 1 byte, of 1 gives none.
RECURSIVE SextetsToBytes(_)
SextetsToBytes(sx) ==
    IF Len(sx) < 2 THEN <<>>
    ELSE LET b1 == (sx[1] * 4) + (sx[2] \div 16)
         IN  IF Len(sx) = 2 THEN <<b1>>
             ELSE LET b2 == ((sx[2] % 16) * 16) + (sx[3] \div 4)
                  IN  IF Len(sx) = 3 THEN <<b1, b2>>
                      ELSE <<b1, b2, ((sx[3] % 4) * 64) + sx[4]>>
                           \o SextetsToBytes(SubSeq(sx, 5, Len(sx)))

\* Buffer.from(str, 'base64')
Base64Decode(str) == SextetsToBytes(Sextets(str, 1))

\* Buffer.toString('hex'): two lowercase hex digits per byte.
RECURSIVE BytesToHex(_)
BytesToHex(bytes) ==
    IF bytes = <<>> THEN ""
    ELSE CharAt(HexDigits, (bytes[1] \div 16) + 1) \o CharAt(HexDigits, (bytes[1] % 16) + 1)
         \o BytesToHex(Tail(bytes))

\* A base64ToHex that keeps the encoding's letter case (upper-case hex).
Base64ToHexUpper(str) ==
    IF ~Truthy(str) THEN Null
    ELSE LET UpperHex == "0123456789ABCDEF"
             RECURSIVE Up(_)
             Up(bytes) ==
                 IF bytes = <<>> THEN ""
                 ELSE CharAt(UpperHex, (bytes[1] \div 16) + 1)
                      \o CharAt(UpperHex, (bytes[1] % 16) + 1) \o Up(Tail(bytes))
         IN  Up(Base64Decode(str))

base64ToHex(str) ==
    IF ~Truthy(str) THEN Null
    ELSE BytesToHex(Base64Decode(str))

\* path.basename(p): the part after the last "/".
Basename(p) == SubSeq(p, LastIndexOf(p, "/") + 1, Len(p))

\* path.parse(p).name: the base name without its last extension; a leading
\* dot does not start an extension.
PathParseName(p) ==
    LET base == Basename(p)
        dot  == LastIndexOf(base, ".")
    IN  IF dot <= 1 \/ base = ".." THEN base ELSE SubSeq(base, 1, dot - 1)

\* String.prototype.toLowerCase
ToLowerCase(s) ==
    LET Upper == "ABCDEFGHIJKLMNOPQRSTUVWXYZ"
        Lower == "abcdefghijklmnopqrstuvwxyz"
        RECURSIVE Low(_)
        Low(i) ==
            IF i > Len(s) THEN ""
            ELSE LET c == CharAt(s, i)
                     k == {j \in 1..Len(Upper) : CharAt(Upper, j) = c}
                 IN  (IF k = {} THEN c ELSE CharAt(Lower, CHOOSE j \in k : TRUE))
                     \o Low(i + 1)
    IN  Low(1)

\* ------------------------------------------------------------------------
\* Records of the metadata store: a document is a function from the names
\* of the fields it holds to their values.
\* ------------------------------------------------------------------------
EmptyDoc == [f \in {} |-> ""]

Has(doc, f) == f \in DOMAIN doc

\* { ...base, ...over }: the fields of over win.
Spread(base, over) == over @@ base

\* obj.f = v
Assign(doc, f, v) == (f :> v) @@ doc

\* A merge that replaces the whole document (set without { merge: true }).
MergeReplace(old, data) == data

\* DocumentReference.set(data, { merge: true }) on the stored document old:
\* the fields of data are written, every other stored field is kept.
Merge(old, data) == Spread(old, data)

\* existingDoc.data().f || []
OrEmptyList(doc, f) == IF Has(doc, f) THEN doc[f] ELSE <<>>
\* existingDoc.data().f || dflt, for string fields
OrString(doc, f, dflt) == IF Has(doc, f) /\ Truthy(doc[f]) THEN doc[f] ELSE dflt

\* An Error object as the handlers record it.
Err(msg) == [message |-> msg, name |-> "Error"]
NoError == [message |-> "", name |-> ""]

\* ------------------------------------------------------------------------
\* Configuration (environment of the two functions)
\* ------------------------------------------------------------------------
\* process.env.EXTRACTED_AUDIO_BUCKET_NAME of the upload processor
AUDIO_BUCKET_NAME == "extracted-audio"
\* process.env.OUTPUT_AUDIO_BUCKET_NAME of the extraction function
AUIDO_OUTPUT_BUCKET_NAME == "extracted-audio"
\* The bucket users upload to.
UploadBucket == "media-uploads"

\* ------------------------------------------------------------------------
\* Inputs: storage notifications and replies of the external services
\* ------------------------------------------------------------------------
\* md5Hash values as the storage service reports them (base64 of 16 bytes).
Hash1 == "XUFAKrxLKna5cZ2REBfFkg=="
Hash2 == "1B2M2Y8AsgTpgAmY7PhCfg=="

Notification(name, ct, hash, time, gen, state) ==
    [name |-> name, bucket |-> UploadBucket, contentType |-> ct, md5Hash |-> hash,
     timeCreated |-> time, generation |-> gen, resourceState |-> state]

\* Notifications of the upload bucket.
UploadEvents ==
    { Notification("videos/clip.mp4", "video/mp4", Hash1, "T1", "G1", "exists"),
      Notification("photo.png", "image/png", Hash1, "T2", "G2", "exists"),
      Notification("photo2.png", "image/png", Hash2, "T3", "G3", "exists"),
      Notification("note.wav", "audio/wav", Hash1, "T4", "G4", "exists"),
      Notification("voice.ogg", "audio/ogg", Hash2, "T5", "G5", "exists"),
      Notification("videos/clip.mp4", "video/mp4", Hash1, "T1", "G1", "not_exists"),
      Notification("composite.png", "image/png", Undefined, "T6", "G6", "exists"),
      Notification("doc.pdf", "application/pdf", Hash1, "T7", "G7", "exists"),
      Notification("blob", Undefined, Hash1, "T8", "G8", "exists") }

\* The notification the storage service sends for an object of the
\* derived-audio bucket.
DerivedAudioEvent(obj) ==
    [name |-> obj.name, bucket |-> AUIDO_OUTPUT_BUCKET_NAME,
     contentType |-> obj.contentType, md5Hash |-> Hash2,
     timeCreated |-> "T9", generation |-> "G9", resourceState |-> "exists"]

\* All sequences over S of length at most n.
SeqsUpTo(S, n) == UNION {[1..k -> S] : k \in 0..n}

\* Descriptions a vision or video annotation carries ("" is an annotation
\* without description).
Descriptions == {"Cat", ""}
\* The same, in the specification of the video path alone.
VideoDescriptions == {"Cat", "Ball", ""}
\* Transcripts of the alternatives speech recognition returns.
Transcripts == {" ", "hi"}
\* format.codec values music-metadata reports.
Codecs == {"FLAC", "Opus", Undefined}

\* Replies of download + parseFile + longRunningRecognize, in the order the
\* audio path awaits them.
AudioReplies(results) ==
    { [kind |-> "download_failed", codec |-> Undefined, hasResults |-> FALSE, results |-> <<>>],
      [kind |-> "parse_failed", codec |-> Undefined, hasResults |-> FALSE, results |-> <<>>] }
    \cup { [kind |-> "recognize_failed", codec |-> c, hasResults |-> FALSE, results |-> <<>>] :
             c \in Codecs }
    \cup { [kind |-> "recognized", codec |-> c, hasResults |-> FALSE, results |-> <<>>] :
             c \in Codecs }
    \cup { [kind |-> "recognized", codec |-> c, hasResults |-> TRUE, results |-> r] :
             c \in Codecs, r \in results }

\* Replies of generateTopicsFromTranscript: a parsed list of topics or a throw.
TopicReplies ==
    { [ok |-> TRUE, topics |-> <<"greeting">>, message |-> ""],
      [ok |-> TRUE, topics |-> <<>>, message |-> ""],
      [ok |-> FALSE, topics |-> <<>>,
       message |-> "Gemini API returned an empty or invalid response."] }

\* Replies of annotateVideo + operation.promise().
VideoReplies(lists) ==
    { [kind |-> "failed", hasLabels |-> FALSE, labels |-> <<>>,
       hasObjects |-> FALSE, objects |-> <<>>],
      [kind |-> "no_annotation_result", hasLabels |-> FALSE, labels |-> <<>>,
       hasObjects |-> FALSE, objects |-> <<>>],
      [kind |-> "annotated", hasLabels |-> FALSE, labels |-> <<>>,
       hasObjects |-> FALSE, objects |-> <<>>] }
    \cup { [kind |-> "annotated", hasLabels |-> TRUE, labels |-> l,
             hasObjects |-> TRUE, objects |-> o] : l \in lists, o \in lists }

\* Replies of labelDetection and of objectLocalization.
VisionReplies(lists) ==
    { [kind |-> "failed", hasList |-> FALSE, list |-> <<>>],
      [kind |-> "annotated", hasList |-> FALSE, list |-> <<>>] }
    \cup { [kind |-> "annotated", hasList |-> TRUE, list |-> l] : l \in lists }

\* The notifications of uploaded videos.
VideoEvents ==
    {f \in UploadEvents : f.contentType = "video/mp4" /\ f.resourceState = "exists"}

\* Messages a queue can deliver that the video path did not publish: no
\* data, data that is not JSON, the JSON value null, and objects without
\* one of the three fields or with an empty one.
MalformedMessages ==
    { [kind |-> "empty", text |-> "", doc |-> <<>>],
      [kind |-> "text", text |-> "not json", doc |-> <<>>],
      [kind |-> "null", text |-> "null", doc |-> <<>>],
      [kind |-> "json", text |-> "", doc |-> <<>>],
      [kind |-> "json", text |-> "",
       doc |-> << <<"sourceFilePath", "videos/clip.mp4">>, <<"firestoreDocId", "abc">> >>],
      [kind |-> "json", text |-> "",
       doc |-> << <<"sourceBucketName", UploadBucket>>, <<"firestoreDocId", "abc">> >>],
      [kind |-> "json", text |-> "",
       doc |-> << <<"sourceBucketName", UploadBucket>>, <<"sourceFilePath", "videos/clip.mp4">> >>],
      [kind |-> "json", text |-> "",
       doc |-> << <<"sourceBucketName", UploadBucket>>, <<"sourceFilePath", "videos/clip.mp4">>,
                  <<"firestoreDocId", "">> >>] }

\* ------------------------------------------------------------------------
\* State
\* ------------------------------------------------------------------------
VARIABLES
    store,         \* the metadata collection: document id -> stored fields
    queue,         \* messages published to the audio-extraction topic, not yet acknowledged
    audioObjects,  \* objects of the derived-audio bucket
    inv,           \* the processMedia invocations, one per instance slot
    started,       \* number of processMedia invocations started so far
    ext            \* the extractAudioHandler invocation

vars == <<store, queue, audioObjects, inv, started, ext>>

\* Instance slots of the upload processor that may run concurrently.
Procs == {1, 2}

NoFile == Notification("", Undefined, Undefined, "", "", "exists")

\* What an invocation received from the external services: the kind of the
\* video annotation reply, the raw label and object descriptions, the codec
\* of the audio file and the transcripts of the recognition results.
NoReplies ==
    [kind |-> "none", labels |-> <<>>, objects |-> <<>>, codec |-> Undefined,
     results |-> <<>>]

\* An instance slot with no invocation. path, pre, alone, log, raw,
\* published, outcome, thrown and wrote observe the invocation: the branch
\* it took, the stored document when it started, whether it ran with no
\* other invocation, the calls it made, what the services answered, the
\* messages it handed to publishMessage, how it ended, and the data of
\* its record write.
IdleInv ==
    [pc |-> "idle", file |-> NoFile, docId |-> "", meta |-> EmptyDoc, err |-> NoError,
     path |-> "none", log |-> <<>>, raw |-> NoReplies, published |-> <<>>,
     outcome |-> "none", thrown |-> NoError, pre |-> <<>>, alone |-> TRUE, seq |-> 0,
     wrote |-> EmptyDoc]

Running(i) == i.pc \notin {"idle", "done"}

\* The extraction function with no invocation. log, outcome and audioFile
\* observe the invocation: the calls it made, how it ended and whether the
\* transcoder left an output file.
IdleExt ==
    [pc |-> "idle", message |-> [kind |-> "empty", text |-> "", doc |-> <<>>],
     log |-> <<>>, outcome |-> "none", audioFile |-> FALSE]

\* ------------------------------------------------------------------------
\* processMedia: values computed between awaits
\* ------------------------------------------------------------------------
\* file.contentType || 'application/octet-stream'
ContentTypeOf(file) ==
    IF Truthy(file.contentType) THEN file.contentType ELSE "application/octet-stream"

GcsUri(file) == "gs://" \o file.bucket \o "/" \o file.name

\* A deletion check that never fires.
DeletedNever(file) == FALSE

\* if (file.resourceState === 'not_exists') return
Deleted(file) == file.resourceState = "not_exists"

\* A derivation that takes the identifier of a derived-audio object from its
\* full file name (extension kept).
DocIdKeepExtension(file) ==
    IF file.bucket = AUDIO_BUCKET_NAME
    THEN Basename(file.name)
    ELSE base64ToHex(file.md5Hash)

\* let firestoreDocId
DocIdOf(file) ==
    IF file.bucket = AUDIO_BUCKET_NAME
    THEN PathParseName(file.name)
    ELSE base64ToHex(file.md5Hash)

\* A dispatch that sends every content type that is neither video nor
\* image to the audio path.
PathOfAudioDefault(file) ==
    LET contentType == ContentTypeOf(file)
    IN  IF StartsWith(contentType, "video/") THEN "video"
        ELSE IF StartsWith(contentType, "image/") THEN "image"
        ELSE "audio"

\* The path the content type selects, "none" for an unsupported type.
PathOf(file) ==
    LET contentType == ContentTypeOf(file)
    IN  IF StartsWith(contentType, "audio/") THEN "audio"
        ELSE IF StartsWith(contentType, "video/") THEN "video"
        ELSE IF StartsWith(contentType, "image/") THEN "image"
        ELSE "none"

\* const currentEventData = { fileName, bucket, contentType, uploadTime,
\*                           mediaUri, processedAt, version }
CurrentEventData(file, now) ==
    [fileName |-> file.name, bucket |-> file.bucket, contentType |-> ContentTypeOf(file),
     uploadTime |-> file.timeCreated, mediaUri |-> GcsUri(file), processedAt |-> now,
     version |-> file.generation]

SourceInfoFields == {"fileName", "bucket", "contentType", "uploadTime", "mediaUri", "version"}

\* The primary file info of the current event, as the audio path assigns it.
SourceInfoOf(file) ==
    [fileName |-> file.name, bucket |-> file.bucket, contentType |-> ContentTypeOf(file),
     uploadTime |-> file.timeCreated, mediaUri |-> GcsUri(file), version |-> file.generation]

\* An audio path that never refreshes the primary file info.
AudioSourceInfoNever(meta, file) == meta

\* An audio path that refreshes the primary file info on every event.
AudioSourceInfoAlways(meta, file) == Spread(meta, SourceInfoOf(file))

\* "Conditionally update primary file info ONLY for direct uploads"
AudioSourceInfo(meta, file) ==
    IF file.bucket # AUDIO_BUCKET_NAME
    THEN Spread(meta, SourceInfoOf(file))
    ELSE meta

\* An encoding selection that accepts Opus.
SpeechEncodingWithOpus(codec, contentType) ==
    LET lc == IF codec = Undefined THEN "" ELSE ToLowerCase(codec)
    IN  IF Includes(lc, "pcm") \/ Includes(contentType, "wav") THEN "LINEAR16"
        ELSE IF Includes(lc, "mpeg") \/ Includes(contentType, "mp3") THEN "MP3"
        ELSE IF Includes(lc, "flac") \/ Includes(contentType, "flac") THEN "FLAC"
        ELSE IF Includes(lc, "opus") THEN "OGG_OPUS"
        ELSE ""

\* The encoding chosen from the codec and the content type; "" when the
\* code throws Unsupported audio codec.
SpeechEncoding(codec, contentType) ==
    LET lc == IF codec = Undefined THEN "" ELSE ToLowerCase(codec)
    IN  IF Includes(lc, "pcm") \/ Includes(contentType, "wav") THEN "LINEAR16"
        ELSE IF Includes(lc, "mpeg") \/ Includes(contentType, "mp3") THEN "MP3"
        ELSE IF Includes(lc, "flac") \/ Includes(contentType, "flac") THEN "FLAC"
        ELSE ""

\* A transcription that is joined but not trimmed.
NewTranscriptionNoTrim(results) == Join(results, "\n")

\* results.map(r => r.alternatives[0].transcript).join('\n').trim()
NewTranscription(results) == Trim(Join(results, "\n"))

\* The audio path's catch block: the speech stage failed with err.
AudioFailed(meta, err) ==
    Spread(meta, [speechApiStatus |-> "error", speechError |-> err.message,
                  processingStatus |-> "Failed"])

\* The audio path after a recognition that yields no topic call.
AudioNoTranscript(meta, status) ==
    Spread(meta, [speechApiStatus |-> status, topicsApiStatus |-> "skipped_no_transcript",
                  processingStatus |-> "Completed"])

\* A topic failure that fails the record.
TopicsFailedFailsRecord(meta, message) ==
    Spread(meta, [topicsApiStatus |-> "error", topicsError |-> message,
                  processingStatus |-> "Failed"])

\* The audio path after catch (geminiErr) and the final status.
TopicsFailed(meta, message) ==
    Spread(meta, [topicsApiStatus |-> "error", topicsError |-> message,
                  processingStatus |-> "Completed"])

\* The video path's record before annotation.
VideoMetadata(exists, doc, file, now) ==
    IF exists
    THEN Assign(Spread(Spread(doc, CurrentEventData(file, now)),
                       [processingStatus |-> "In Progress", videoApiStatus |-> "pending",
                        tags |-> OrEmptyList(doc, "tags"),
                        object_tags |-> OrEmptyList(doc, "object_tags"),
                        transcription |-> OrString(doc, "transcription", ""),
                        topics |-> OrEmptyList(doc, "topics"),
                        topicsApiStatus |-> OrString(doc, "topicsApiStatus", "pending")]),
                "videoApiStatus", "processing")
    ELSE Assign(Spread(CurrentEventData(file, now),
                       [tags |-> <<>>, object_tags |-> <<>>, transcription |-> "",
                        processingStatus |-> "In Progress", videoApiStatus |-> "pending",
                        speechApiStatus |-> "pending", topics |-> <<>>,
                        topicsApiStatus |-> "pending"]),
                "videoApiStatus", "processing")

\* A tag list that drops empty descriptions but keeps repeated ones.
VideoTagsNoDedup(has, raw) == IF has THEN FilterBoolean(raw) ELSE <<>>

\* annotations?.map(a => a.entity.description).filter(Boolean)
\*             .filter((v, i, s) => s.indexOf(v) === i) || []
VideoTags(has, raw) ==
    IF has THEN FilterFirstOccurrence(FilterBoolean(raw)) ELSE <<>>

\* A status that looks at the tags only.
StatusOfTagsOnly(tags, object_tags) ==
    IF Len(tags) > 0 THEN "success" ELSE "no_results"

\* success when a tag list is non-empty, no_results otherwise
StatusOfTags(tags, object_tags) ==
    IF Len(tags) > 0 \/ Len(object_tags) > 0 THEN "success" ELSE "no_results"

\* A video path that marks the record Completed after annotation.
VideoAnnotatedCompleted(meta, reply) ==
    IF reply.kind = "annotated"
    THEN LET tags == VideoTags(reply.hasLabels, reply.labels)
             object_tags == VideoTags(reply.hasObjects, reply.objects)
         IN  Spread(meta, [tags |-> tags, object_tags |-> object_tags,
                           videoApiStatus |-> StatusOfTags(tags, object_tags),
                           processingStatus |-> "Completed"])
    ELSE Spread(meta, [videoApiStatus |-> "no_results", processingStatus |-> "Completed"])

\* The video path's record after a reply without error.
VideoAnnotated(meta, reply) ==
    IF reply.kind = "annotated"
    THEN LET tags == VideoTags(reply.hasLabels, reply.labels)
             object_tags == VideoTags(reply.hasObjects, reply.objects)
         IN  Spread(meta, [tags |-> tags, object_tags |-> object_tags,
                           videoApiStatus |-> StatusOfTags(tags, object_tags)])
    ELSE Assign(meta, "videoApiStatus", "no_results")

\* A message that names the asset by its content hash as reported.
MessageDataRawHash(file, docId) ==
    [sourceBucketName |-> file.bucket, sourceFilePath |-> file.name,
     firestoreDocId |-> file.md5Hash]

\* const messageData = { sourceBucketName, sourceFilePath, firestoreDocId }
MessageData(file, docId) ==
    [sourceBucketName |-> file.bucket, sourceFilePath |-> file.name, firestoreDocId |-> docId]

\* JSON.stringify of a flat object of strings: its members in order.
JsonStringify(obj) ==
    [kind |-> "json", text |-> "",
     doc |-> << <<"sourceBucketName", obj.sourceBucketName>>,
                <<"sourceFilePath", obj.sourceFilePath>>,
                <<"firestoreDocId", obj.firestoreDocId>> >>]

\* The image path's record before the vision calls.
ImageMetadata(exists, doc, file, now) ==
    IF exists
    THEN Assign(Assign(Spread(doc, CurrentEventData(file, now)),
                       "processingStatus", "In Progress"),
                "visionApiStatus", "processing")
    ELSE Assign(Spread(CurrentEventData(file, now),
                       [tags |-> <<>>, object_tags |-> <<>>,
                        processingStatus |-> "In Progress"]),
                "visionApiStatus", "processing")

\* An image path that adds the new entries to the list it read.
ImageTagsAppend(old, reply) ==
    old \o (IF reply.hasList THEN FilterBoolean(reply.list) ELSE <<>>)

\* annotations?.map(a => a.description).filter(Boolean) || []
ImageTags(old, reply) == IF reply.hasList THEN FilterBoolean(reply.list) ELSE <<>>

\* An error-state document that also clears the tags.
ErrorStateClearsTags(error, now) ==
    [processingError |-> [message |-> error.message, name |-> error.name],
     processingStatus |-> "Failed", processedAt |-> now, tags |-> <<>>]

\* An error-state document without the overall status.
ErrorStateKeepsStatus(error, now) ==
    [processingError |-> [message |-> error.message, name |-> error.name],
     processedAt |-> now]

\* The record the outer catch writes.
ErrorState(error, now) ==
    [processingError |-> [message |-> error.message, name |-> error.name],
     processingStatus |-> "Failed", processedAt |-> now]

\* ------------------------------------------------------------------------
\* processMedia: one action per await
\* ------------------------------------------------------------------------
Exists(docId) == docId \in DOMAIN store
StoredDoc(docId) == IF Exists(docId) THEN store[docId] ELSE EmptyDoc

\* inv with slot p replaced by i
SetInv(p, i) == inv' = [inv EXCEPT ![p] = i]

\* The invocation i after an error escaped to the outer catch, which reads
\* nothing but the error.
Caught(i, op, message) ==
    [i EXCEPT !.pc = "catch", !.err = Err(message), !.log = Append(@, op),
              !.meta = EmptyDoc, !.raw = NoReplies]

\* Entry of the handler up to the first await: deletion check, identifier,
\* dispatch on the content type. The observations of the invocations that
\* ended before are dropped.
Start(p, file, limit) ==
    /\ ~Running(inv[p])
    /\ ~Running(ext)
    /\ started < limit
    /\ started' = started + 1
    /\ \E docId \in {IF Deleted(file) THEN Null ELSE DocIdOf(file)} :
       LET path    == IF ~Truthy(docId) THEN "none" ELSE PathOf(file)
           others  == \E q \in DOMAIN inv \ {p} : Running(inv[q])
           fresh   == [IdleInv EXCEPT
                         !.pc = CASE path = "audio" -> "a_get"
                                  [] path = "video" -> "v_get"
                                  [] path = "image" -> "i_get"
                                  [] OTHER -> "done",
                         !.outcome = IF path = "none" THEN "returned" ELSE "none",
                         !.path = path,
                         !.file = file,
                         !.docId = docId,
                         !.pre = IF Exists(docId) THEN docId :> store[docId] ELSE <<>>,
                         !.alone = ~others,
                         !.seq = started + 1]
       IN  inv' = [q \in DOMAIN inv |->
                    IF q = p THEN fresh
                    ELSE IF ~Running(inv[q]) THEN IdleInv
                    ELSE IF Running(fresh) THEN [inv[q] EXCEPT !.alone = FALSE]
                    ELSE inv[q]]
    /\ ext' = IF ext.pc = "done" THEN IdleExt ELSE ext
    /\ UNCHANGED <<store, queue, audioObjects>>

\* Audio path: const existingDoc = await docRef.get()
AudioGet(p, ok) ==
    LET i == inv[p] IN
    /\ i.pc = "a_get"
    /\ IF ok
       THEN SetInv(p, [i EXCEPT
                !.pc = "a_speech",
                !.log = Append(@, "get"),
                !.meta = Spread(StoredDoc(i.docId),
                                [processingStatus |-> "In Progress",
                                 processedAt |-> i.seq])])
       ELSE SetInv(p, Caught(i, "get_failed", "metadata read failed"))
    /\ UNCHANGED <<store, queue, audioObjects, started, ext>>

\* The invocation after the audio path's try / catch / finally: temporary
\* file cleanup, the conditional primary file info, ready to write.
AudioReadyToSet(i, ops, meta) ==
    [i EXCEPT !.pc = "a_set",
              !.log = @ \o ops \o <<"cleanup">>,
              !.meta = AudioSourceInfo(meta, i.file)]

\* Audio path: download, parseFile, encoding selection, longRunningRecognize
\* and the classification of its response.
AudioSpeech(p, reply) ==
    LET i == [inv[p] EXCEPT !.raw = [@ EXCEPT !.codec = reply.codec,
                                              !.results = reply.results]]
        encoding == SpeechEncoding(reply.codec, ContentTypeOf(i.file))
        newTranscription == NewTranscription(reply.results)
    IN
    /\ i.pc = "a_speech"
    /\ SetInv(p,
         CASE reply.kind = "download_failed" ->
                AudioReadyToSet(i, <<"download_failed">>,
                                AudioFailed(i.meta, Err("download failed")))
           [] reply.kind = "parse_failed" ->
                AudioReadyToSet(i, <<"download", "parse_failed">>,
                                AudioFailed(i.meta, Err("cannot parse audio file")))
           [] reply.kind \notin {"download_failed", "parse_failed"} /\ encoding = "" ->
                AudioReadyToSet(i, <<"download", "parse">>,
                                AudioFailed(i.meta,
                                    Err("Unsupported audio codec: "
                                        \o (IF reply.codec = Undefined THEN "undefined"
                                            ELSE reply.codec))))
           [] reply.kind = "recognize_failed" /\ encoding # "" ->
                AudioReadyToSet(i, <<"download", "parse", "recognize_failed">>,
                                AudioFailed(i.meta, Err("speech recognition failed")))
           [] reply.kind = "recognized" /\ encoding # "" ->
                IF reply.hasResults /\ Len(reply.results) > 0
                THEN IF Truthy(newTranscription)
                     THEN [i EXCEPT
                             !.pc = "a_topics",
                             !.log = @ \o <<"download", "parse", "recognize">>,
                             !.meta = Spread(@, [transcription |-> newTranscription,
                                                 speechApiStatus |-> "success",
                                                 topicsApiStatus |-> "processing"])]
                     ELSE AudioReadyToSet(i, <<"download", "parse", "recognize">>,
                              AudioNoTranscript(
                                  Assign(i.meta, "transcription", newTranscription),
                                  "no_transcription"))
                ELSE AudioReadyToSet(i, <<"download", "parse", "recognize">>,
                                     AudioNoTranscript(i.meta, "no_results")))
    /\ UNCHANGED <<store, queue, audioObjects, started, ext>>

\* Audio path: await generateTopicsFromTranscript(newTranscription), with
\* its own catch.
AudioTopics(p, reply) ==
    LET i == inv[p] IN
    /\ i.pc = "a_topics"
    /\ SetInv(p,
         IF reply.ok
         THEN AudioReadyToSet(i, <<"topics">>,
                  Spread(i.meta, [topics |-> reply.topics, topicsApiStatus |-> "success",
                                  processingStatus |-> "Completed"]))
         ELSE AudioReadyToSet(i, <<"topics_failed">>, TopicsFailed(i.meta, reply.message)))
    /\ UNCHANGED <<store, queue, audioObjects, started, ext>>

\* await docRef.set(metadataToSave, { merge: true }) of the path at pc,
\* continuing at next.
DocSet(p, at, next, ok) ==
    LET i == inv[p] IN
    /\ i.pc = at
    /\ IF ok
       THEN /\ store' = (i.docId :> Merge(StoredDoc(i.docId), i.meta)) @@ store
            /\ SetInv(p, [i EXCEPT !.pc = next,
                                   !.log = Append(@, "set"),
                                   !.wrote = i.meta,
                                   !.outcome = IF next = "done" THEN "returned" ELSE @,
                                   !.meta = IF next = "done" THEN EmptyDoc ELSE @])
       ELSE /\ SetInv(p, Caught(i, "set_failed", "metadata write failed"))
            /\ UNCHANGED store
    /\ UNCHANGED <<queue, audioObjects, started, ext>>

AudioSet(p, ok) == DocSet(p, "a_set", "done", ok)

\* Video path: const existingDoc = await docRef.get()
VideoGet(p, ok) ==
    LET i == inv[p] IN
    /\ i.pc = "v_get"
    /\ IF ok
       THEN SetInv(p, [i EXCEPT
                !.pc = "v_annotate",
                !.log = Append(@, "get"),
                !.meta = VideoMetadata(Exists(i.docId), StoredDoc(i.docId), i.file, i.seq)])
       ELSE SetInv(p, Caught(i, "get_failed", "metadata read failed"))
    /\ UNCHANGED <<store, queue, audioObjects, started, ext>>

\* Video path: annotateVideo, operation.promise() and the tag lists.
VideoAnnotate(p, reply) ==
    LET i == inv[p] IN
    /\ i.pc = "v_annotate"
    /\ IF reply.kind = "failed"
       THEN SetInv(p, Caught(i, "annotate_failed", "video annotation failed"))
       ELSE SetInv(p, [i EXCEPT !.pc = "v_set",
                               !.log = Append(@, "annotate"),
                               !.raw = [@ EXCEPT !.kind = reply.kind,
                                                 !.labels = reply.labels,
                                                 !.objects = reply.objects],
                               !.meta = VideoAnnotated(@, reply)])
    /\ UNCHANGED <<store, queue, audioObjects, started, ext>>

VideoSet(p, ok) == DocSet(p, "v_set", "v_publish", ok)

\* Video path: await pubSubClient.topic(...).publishMessage({ data })
VideoPublish(p, ok) ==
    LET i == inv[p]
        data == JsonStringify(MessageData(i.file, i.docId))
    IN
    /\ i.pc = "v_publish"
    /\ IF ok
       THEN /\ queue' = queue \cup {data}
            /\ SetInv(p, [i EXCEPT !.pc = "done", !.outcome = "returned",
                                   !.meta = EmptyDoc,
                                   !.log = Append(@, "publish"),
                                   !.published = Append(@, data)])
       ELSE /\ SetInv(p, [Caught(i, "publish_failed", "publish failed")
                            EXCEPT !.published = Append(@, data)])
            /\ UNCHANGED queue
    /\ UNCHANGED <<store, audioObjects, started, ext>>

\* Image path: const existingDoc = await docRef.get()
ImageGet(p, ok) ==
    LET i == inv[p] IN
    /\ i.pc = "i_get"
    /\ IF ok
       THEN SetInv(p, [i EXCEPT
                !.pc = "i_label",
                !.log = Append(@, "get"),
                !.meta = ImageMetadata(Exists(i.docId), StoredDoc(i.docId), i.file, i.seq)])
       ELSE SetInv(p, Caught(i, "get_failed", "metadata read failed"))
    /\ UNCHANGED <<store, queue, audioObjects, started, ext>>

\* Image path: await visionClient.labelDetection(gcsUri)
ImageLabel(p, reply) ==
    LET i == inv[p] IN
    /\ i.pc = "i_label"
    /\ IF reply.kind = "failed"
       THEN SetInv(p, Caught(i, "label_failed", "label detection failed"))
       ELSE SetInv(p, [i EXCEPT
                !.pc = "i_object",
                !.log = Append(@, "label"),
                !.raw = [@ EXCEPT !.labels = reply.list],
                !.meta = Assign(@, "tags", ImageTags(OrEmptyList(i.meta, "tags"), reply))])
    /\ UNCHANGED <<store, queue, audioObjects, started, ext>>

\* Image path: await visionClient.objectLocalization(gcsUri), then the
\* vision status and the overall status.
ImageObject(p, reply) ==
    LET i == inv[p]
        object_tags == ImageTags(OrEmptyList(i.meta, "object_tags"), reply)
    IN
    /\ i.pc = "i_object"
    /\ IF reply.kind = "failed"
       THEN SetInv(p, Caught(i, "object_failed", "object localization failed"))
       ELSE SetInv(p, [i EXCEPT
                !.pc = "i_set",
                !.log = Append(@, "object"),
                !.raw = [@ EXCEPT !.objects = reply.list],
                !.meta = Spread(@, [object_tags |-> object_tags,
                                    visionApiStatus |-> StatusOfTags(i.meta.tags, object_tags),
                                    processingStatus |-> "Completed"])])
    /\ UNCHANGED <<store, queue, audioObjects, started, ext>>

ImageSet(p, ok) == DocSet(p, "i_set", "done", ok)

\* An outer catch that lets the failure of its own write escape.
RethrowWriteError(error, writeOk, writeError) == IF writeOk THEN error ELSE writeError

\* The error the invocation ends with after the outer catch; writeError is
\* the error of a failed error-state write.
Rethrown(error, writeOk, writeError) == error

\* Outer catch: the best-effort error-state write, then throw error.
Catch(p, ok) ==
    LET i == inv[p] IN
    /\ i.pc = "catch"
    /\ IF ok
       THEN store' = (i.docId :> Merge(StoredDoc(i.docId), ErrorState(i.err, i.seq))) @@ store
       ELSE UNCHANGED store
    /\ SetInv(p, [i EXCEPT !.pc = "done", !.outcome = "threw", !.meta = EmptyDoc,
                           !.log = Append(@, IF ok THEN "errset" ELSE "errset_failed"),
                           !.thrown = Rethrown(i.err, ok, Err("error-state write failed"))])
    /\ UNCHANGED <<queue, audioObjects, started, ext>>

\* ------------------------------------------------------------------------
\* extractAudioHandler
\* ------------------------------------------------------------------------
\* JSON.parse of a document, then the destructured property: the value of
\* the last member named key, Undefined when there is none.
JsonField(doc, key) ==
    LET hits == {k \in 1..Len(doc) : doc[k][1] = key}
    IN  IF hits = {} THEN Undefined
        ELSE doc[CHOOSE k \in hits : \A j \in hits : j <= k][2]

\* const { sourceBucketName, sourceFilePath, firestoreDocId } = messagePayload
Payload(message) ==
    [sourceBucketName |-> JsonField(message.doc, "sourceBucketName"),
     sourceFilePath |-> JsonField(message.doc, "sourceFilePath"),
     firestoreDocId |-> JsonField(message.doc, "firestoreDocId")]

\* The message passes the checks before the try block: data present, data
\* parses as JSON, the three fields present.
WellFormed(message) ==
    /\ message.kind = "json"
    /\ Truthy(Payload(message).sourceBucketName)
    /\ Truthy(Payload(message).sourceFilePath)
    /\ Truthy(Payload(message).firestoreDocId)

\* An output name without the extension.
OutputNameNoExtension(firestoreDocId) == firestoreDocId

\* const outputAudioFileName = `${firestoreDocId}.flac`
OutputAudioFileName(firestoreDocId) == firestoreDocId \o ".flac"

\* JSON.parse returns null: destructuring messagePayload throws a
\* TypeError before the try block.
ParsesToNull(message) == message.kind = "null"

\* A finally block that leaves the video file.
CleanupAudioOnly(audioFile) ==
    <<"stat_audio">> \o (IF audioFile THEN <<"unlink_audio">> ELSE <<>>)

\* The finally block: unlink the video file, stat the audio file and unlink
\* it when it exists.
Cleanup(audioFile) ==
    <<"unlink_video", "stat_audio">> \o (IF audioFile THEN <<"unlink_audio">> ELSE <<>>)

\* The handler throws after the catch and the finally block; the message is
\* not acknowledged.
ExtThrew(e, op) ==
    [e EXCEPT !.pc = "done", !.outcome = "threw",
              !.log = @ \o <<op>> \o Cleanup(e.audioFile)]

\* Delivery of a message: decoding and validation, before the try block.
\* The observations of the invocations that ended before are dropped. The
\* two functions share no record and no file: the model runs an extraction
\* between the invocations of the upload processor, not beside them.
ExtStart(message) ==
    /\ ~Running(ext)
    /\ \A q \in DOMAIN inv : ~Running(inv[q])
    /\ IF WellFormed(message)
       THEN /\ ext' = [IdleExt EXCEPT !.pc = "x_download", !.message = message]
            /\ UNCHANGED queue
       ELSE IF ParsesToNull(message)
       THEN /\ ext' = [IdleExt EXCEPT !.pc = "done", !.message = message,
                                      !.outcome = "threw"]
            /\ UNCHANGED queue
       ELSE /\ ext' = [IdleExt EXCEPT !.pc = "done", !.message = message,
                                      !.outcome = "returned"]
            /\ queue' = queue \ {message}
    /\ inv' = [q \in DOMAIN inv |-> IF Running(inv[q]) THEN inv[q] ELSE IdleInv]
    /\ UNCHANGED <<store, audioObjects, started>>

\* await storage.bucket(sourceBucketName).file(sourceFilePath).download(...)
ExtDownload(ok) ==
    /\ ext.pc = "x_download"
    /\ ext' = IF ok THEN [ext EXCEPT !.pc = "x_ffmpeg", !.log = Append(@, "download")]
              ELSE ExtThrew(ext, "download_failed")
    /\ UNCHANGED <<store, queue, audioObjects, inv, started>>

\* The transcoder subprocess: exit code 0, another exit code, or a failure
\* to start; wrote tells whether it left an output file.
ExtFfmpeg(result, wrote) ==
    /\ ext.pc = "x_ffmpeg"
    /\ result = "exit_0" => wrote
    /\ result = "spawn_error" => ~wrote
    /\ ext' = IF result = "exit_0"
              THEN [ext EXCEPT !.pc = "x_upload", !.log = Append(@, "ffmpeg"),
                               !.audioFile = wrote]
              ELSE ExtThrew([ext EXCEPT !.audioFile = wrote], "ffmpeg_" \o result)
    /\ UNCHANGED <<store, queue, audioObjects, inv, started>>

\* await storage.bucket(AUIDO_OUTPUT_BUCKET_NAME).upload(localAudioPath, ...),
\* the finally block, and the acknowledgement by returning.
ExtUpload(ok) ==
    /\ ext.pc = "x_upload"
    /\ IF ok
       THEN /\ audioObjects' = audioObjects \cup
                   {[name |-> OutputAudioFileName(Payload(ext.message).firestoreDocId),
                     contentType |-> "audio/flac"]}
            /\ ext' = [ext EXCEPT !.pc = "done", !.outcome = "returned",
                                  !.log = @ \o <<"upload">> \o Cleanup(ext.audioFile)]
            /\ queue' = queue \ {ext.message}
       ELSE /\ ext' = ExtThrew(ext, "upload_failed")
            /\ UNCHANGED <<audioObjects, queue>>
    /\ UNCHANGED <<store, inv, started>>

\* ------------------------------------------------------------------------
\* Specification
\* ------------------------------------------------------------------------
\* The state after deployment, with the instance slots procs.
InitWith(procs) ==
    /\ store = <<>>
    /\ queue = {}
    /\ audioObjects = {}
    /\ inv = [p \in procs |-> IdleInv]
    /\ started = 0
    /\ ext = IdleExt

\* The steps of an invocation on each path. audioReplies .. visionReplies:
\* what the external services answer; oks: the outcomes of a store or queue
\* call (TRUE: it succeeds).
AudioPath(p, audioReplies, topicReplies, oks) ==
    \/ \E ok \in oks : AudioGet(p, ok)
    \/ \E reply \in audioReplies : AudioSpeech(p, reply)
    \/ \E reply \in topicReplies : AudioTopics(p, reply)
    \/ \E ok \in oks : AudioSet(p, ok)

VideoPath(p, videoReplies, oks) ==
    \/ \E ok \in oks : VideoGet(p, ok)
    \/ \E reply \in videoReplies : VideoAnnotate(p, reply)
    \/ \E ok \in oks : VideoSet(p, ok)
    \/ \E ok \in oks : VideoPublish(p, ok)

ImagePath(p, visionReplies, oks) ==
    \/ \E ok \in oks : ImageGet(p, ok)
    \/ \E reply \in visionReplies : ImageLabel(p, reply)
    \/ \E reply \in visionReplies : ImageObject(p, reply)
    \/ \E ok \in oks : ImageSet(p, ok)

\* The steps of the extraction function; messages: the messages delivered
\* besides the published ones.
Extraction(oks, messages) ==
    \/ \E message \in queue \cup messages : ExtStart(message)
    \/ \E ok \in oks : ExtDownload(ok)
    \/ \E result \in {"exit_0", "exit_1", "spawn_error"}, wrote \in BOOLEAN :
         ExtFfmpeg(result, wrote)
    \/ \E ok \in oks : ExtUpload(ok)

\* The notifications that can be delivered: events, and one for each object
\* of the derived-audio bucket.
Deliverable(events) == events \cup {DerivedAudioEvent(o) : o \in audioObjects}

\* Spec: one instance of the upload processor handling its notifications
\* one after the other, and the extraction function; every notification,
\* every reply and every failure of a store or queue call.
Init == InitWith({1})
Next ==
    \/ \E p \in {1} :
         \/ \E file \in Deliverable(UploadEvents) : Start(p, file, MaxInvocations)
         \/ AudioPath(p, AudioReplies(SeqsUpTo(Transcripts, MaxResults)), TopicReplies, BOOLEAN)
         \/ VideoPath(p, VideoReplies(SeqsUpTo(Descriptions, MaxResults)), BOOLEAN)
         \/ ImagePath(p, VisionReplies(SeqsUpTo(Descriptions, MaxResults)), BOOLEAN)
         \/ \E ok \in BOOLEAN : Catch(p, ok)
    \/ Extraction(BOOLEAN, {})
Spec == Init /\ [][Next]_vars

\* SpecRace: two concurrent instances of the upload processor on a video
\* and on the audio track derived from it, and the extraction function;
\* the store and the queue answer every call.
RaceLists == SeqsUpTo({"Cat"}, MaxResults - 1)
RaceAudioReplies ==
    {r \in AudioReplies(SeqsUpTo({"hi"}, MaxResults - 1)) :
        r.codec = "FLAC" /\ r.kind \in {"recognized", "recognize_failed"}}

InitRace == InitWith(Procs)
NextRace ==
    \/ \E p \in Procs :
         \/ \E file \in Deliverable(VideoEvents) : Start(p, file, MaxRaceInvocations)
         \/ AudioPath(p, RaceAudioReplies, TopicReplies, {TRUE})
         \/ VideoPath(p, VideoReplies(RaceLists), {TRUE})
         \/ Catch(p, TRUE)
    \/ Extraction({TRUE}, {})
SpecRace == InitRace /\ [][NextRace]_vars

\* SpecVideo: the video path alone, on every list of raw annotations.
NextVideo ==
    \E p \in {1} :
       \/ \E file \in VideoEvents : Start(p, file, MaxVideoInvocations)
       \/ VideoPath(p, VideoReplies(SeqsUpTo(VideoDescriptions, MaxAnnotations)), BOOLEAN)
       \/ \E ok \in BOOLEAN : Catch(p, ok)
SpecVideo == Init /\ [][NextVideo]_vars

\* SpecExtract: the extraction function on the messages the video path
\* publishes and on malformed messages; the video path's calls succeed.
ExtractVideoReplies ==
    {r \in VideoReplies(SeqsUpTo(Descriptions, MaxResults - 1)) : r.kind # "failed"}

NextExtract ==
    \/ \E p \in {1} :
         \/ \E file \in VideoEvents : Start(p, file, MaxExtractInvocations)
         \/ VideoPath(p, ExtractVideoReplies, {TRUE})
    \/ Extraction(BOOLEAN, MalformedMessages)
SpecExtract == Init /\ [][NextExtract]_vars

\* SpecRetry: two concurrent instances of the upload processor on a video
\* notification that is retried after a failed annotation and delivered
\* again, and on the audio track derived from the video; the store and the
\* queue answer every call.
RetryVideoReplies ==
    {r \in VideoReplies({<<>>}) : r.kind = "failed" \/ (r.kind = "annotated" /\ ~r.hasLabels)}
RetryAudioReplies ==
    {r \in AudioReplies({<<"hi">>}) : r.codec = "FLAC" /\ r.kind = "recognized" /\ r.hasResults}
RetryTopicReplies == {r \in TopicReplies : r.ok /\ r.topics # <<>>}

NextRetry ==
    \/ \E p \in Procs :
         \/ \E file \in Deliverable(VideoEvents) : Start(p, file, MaxRetryInvocations)
         \/ AudioPath(p, RetryAudioReplies, RetryTopicReplies, {TRUE})
         \/ VideoPath(p, RetryVideoReplies, {TRUE})
         \/ Catch(p, TRUE)
    \/ Extraction({TRUE}, {})
SpecRetry == InitRace /\ [][NextRetry]_vars

\* ------------------------------------------------------------------------
\* Vocabulary of the properties
\* ------------------------------------------------------------------------
\* Field f is the same in documents a and b: absent in both, or present in
\* both with one value.
SameField(a, b, f) == (Has(a, f) <=> Has(b, f)) /\ (Has(a, f) => a[f] = b[f])

\* The call op occurs in the log.
Called(log, op) == \E k \in DOMAIN log : log[k] = op
\* The number of calls of the log that are among ops.
Calls(log, ops) == Cardinality({k \in DOMAIN log : log[k] \in ops})
\* Call a occurs in the log, and every call among ops comes after it.
Before(log, a, ops) ==
    \E k \in DOMAIN log : log[k] = a /\ \A j \in DOMAIN log : log[j] \in ops => k < j

Ended(i) == i.pc = "done"
\* The document of the invocation's AssetId when the invocation started.
HadRecord(i) == i.docId \in DOMAIN i.pre
PreDoc(i) == IF HadRecord(i) THEN i.pre[i.docId] ELSE EmptyDoc

FromDerivedAudio(i) == i.file.bucket = AUDIO_BUCKET_NAME
DirectUpload(i) == i.pc # "idle" /\ i.file.bucket # AUDIO_BUCKET_NAME

\* The lowercase hexadecimal MD5 digests behind Hash1 and Hash2.
LowercaseHex ==
    (Hash1 :> "5d41402abc4b2a76b9719d911017c592") @@
    (Hash2 :> "d41d8cd98f00b204e9800998ecf8427e")

\* The fields of the parent video that a derived audio track must keep.
ParentFields == SourceInfoFields \cup {"tags", "object_tags"}

\* ------------------------------------------------------------------------
\* C1
\* ------------------------------------------------------------------------
\* C1: a derived-audio notification that takes the audio path while a
\* record exists for its AssetId, with no other invocation running, leaves
\* fileName, bucket, contentType, uploadTime, mediaUri, version, tags and
\* object_tags of the stored record as they were, whatever the outcome of
\* speech analysis and topic generation.
C1_DerivedAudioKeepsParentFields ==
    \A p \in DOMAIN inv :
       LET i == inv[p] IN
       (Ended(i) /\ FromDerivedAudio(i) /\ i.path = "audio" /\ HadRecord(i) /\ i.alone)
          => \A f \in ParentFields : SameField(PreDoc(i), StoredDoc(i.docId), f)

\* A derived-audio invocation has merged a transcription into the record
\* of a video that has tags.
C1_Witness ==
    \E p \in DOMAIN inv :
       LET i == inv[p] IN
       /\ Ended(i) /\ FromDerivedAudio(i) /\ i.path = "audio" /\ HadRecord(i) /\ i.alone
       /\ i.outcome = "returned" /\ Called(i.log, "set")
       /\ Has(PreDoc(i), "tags") /\ Len(PreDoc(i).tags) > 0
       /\ PreDoc(i).fileName = "videos/clip.mp4"
       /\ StoredDoc(i.docId).speechApiStatus = "success"

\* ------------------------------------------------------------------------
\* C2
\* ------------------------------------------------------------------------
\* C2: in every interleaving of a derived-audio invocation with video-path
\* invocations for the same AssetId, the write of the derived-audio
\* invocation changes none of the stored sourceInfo fields, tags and
\* object_tags.
C2_DerivedAudioWriteKeepsParentFields ==
    [][\A p \in DOMAIN inv :
         (inv[p].pc = "a_set" /\ FromDerivedAudio(inv[p]) /\ inv'[p].pc = "done")
            => \A f \in ParentFields :
                  SameField(StoredDoc(inv[p].docId), StoredDoc(inv[p].docId)', f)]_vars

\* ------------------------------------------------------------------------
\* C3
\* ------------------------------------------------------------------------
\* C3: for a non-deletion notification of a bucket other than the
\* derived-audio bucket, a present content hash makes the lowercase hex
\* encoding of the hash the key of the record the invocation reads and
\* writes (and every stored record is keyed so); a missing content hash
\* makes the invocation return normally with no read, no write and no
\* published message.
C3_IdentifierFromHash ==
    /\ \A p \in DOMAIN inv :
          LET i == inv[p] IN
          (DirectUpload(i) /\ i.file.resourceState = "exists")
             => IF i.file.md5Hash \in DOMAIN LowercaseHex
                THEN i.docId = LowercaseHex[i.file.md5Hash]
                ELSE /\ Ended(i) /\ i.outcome = "returned" /\ i.thrown = NoError
                     /\ i.log = <<>> /\ i.published = <<>>
    /\ DOMAIN store \subseteq {LowercaseHex[h] : h \in DOMAIN LowercaseHex}

\* A notification without content hash has been dropped while a record
\* written under the hex encoding of a hash is in the store.
C3_Witness ==
    /\ \E p \in DOMAIN inv :
          /\ Ended(inv[p]) /\ DirectUpload(inv[p])
          /\ inv[p].file.md5Hash = Undefined /\ inv[p].file.resourceState = "exists"
    /\ LowercaseHex[Hash1] \in DOMAIN store

\* ------------------------------------------------------------------------
\* C4
\* ------------------------------------------------------------------------
PublishCalls == {"publish", "publish_failed"}

VideoAssetIds == {LowercaseHex[f.md5Hash] : f \in VideoEvents}

\* C5: the identifier round trip. Every fan-out message carries the
\* lowercase hex of the video's content hash and passes the extraction
\* handler's validation; every object the extraction handler uploads is
\* named <that identifier>.flac with content type audio/flac; and an
\* invocation of the upload processor for such an object takes the audio
\* path with the AssetId of the parent video, whose record exists.
C5_IdentifierRoundTrip ==
    /\ \A m \in queue :
          WellFormed(m) /\ Payload(m).firestoreDocId \in VideoAssetIds
    /\ \A o \in audioObjects :
          /\ o.contentType = "audio/flac"
          /\ \E id \in VideoAssetIds : o.name = id \o ".flac"
    /\ \A p \in DOMAIN inv :
          LET i == inv[p] IN
          (i.pc # "idle" /\ FromDerivedAudio(i))
             => /\ i.path = "audio"
                /\ i.docId \in VideoAssetIds
                /\ i.docId \in DOMAIN store
                /\ StoredDoc(i.docId).fileName \in {f.name : f \in VideoEvents}

\* The upload processor runs the audio path on an object the extraction
\* handler uploaded.
C5_Witness ==
    \E p \in DOMAIN inv :
       /\ inv[p].pc = "a_speech" /\ FromDerivedAudio(inv[p])
       /\ inv[p].file.name = LowercaseHex[Hash1] \o ".flac"
       /\ audioObjects # {}

\* ------------------------------------------------------------------------
\* C6
\* ------------------------------------------------------------------------
\* The error each failing call raises.
ErrorOf ==
    [get_failed |-> "metadata read failed", set_failed |-> "metadata write failed",
     annotate_failed |-> "video annotation failed", publish_failed |-> "publish failed",
     label_failed |-> "label detection failed",
     object_failed |-> "object localization failed"]

ErrorStateWrites == {"errset", "errset_failed"}

\* C6: an invocation throws exactly when an error escaped its path; it then
\* has attempted exactly one error-state write, as its last call, and
\* throws the error that escaped, also when that write failed; when the
\* write succeeded the record holds processingError with the message and
\* name of that error and overall status Failed.
C6_OuterCatch ==
    \A p \in DOMAIN inv :
       LET i == inv[p]
           n == Len(i.log)
       IN
       Ended(i) =>
          /\ i.outcome = "returned" => Calls(i.log, ErrorStateWrites) = 0
          /\ i.outcome = "threw" =>
                /\ n >= 2
                /\ Calls(i.log, ErrorStateWrites) = 1
                /\ i.log[n] \in ErrorStateWrites
                /\ i.log[n - 1] \in DOMAIN ErrorOf
                /\ i.thrown = [message |-> ErrorOf[i.log[n - 1]], name |-> "Error"]
                /\ i.log[n] = "errset" =>
                      /\ StoredDoc(i.docId).processingError = i.thrown
                      /\ StoredDoc(i.docId).processingStatus = "Failed"
          /\ (\E k \in DOMAIN i.log : i.log[k] \in DOMAIN ErrorOf) => i.outcome = "threw"

\* The error-state write of an audio-path invocation failed and the
\* invocation threw.
C6_Witness ==
    \E p \in DOMAIN inv :
       /\ Ended(inv[p]) /\ inv[p].outcome = "threw" /\ inv[p].path = "audio"
       /\ inv[p].log[Len(inv[p].log)] = "errset_failed"
       /\ inv[p].thrown.message = "metadata write failed"

\* ------------------------------------------------------------------------
\* C7
\* ------------------------------------------------------------------------
\* The failing call of each capability, the status field and the error
\* field of the record the audio path uses for it.
CapabilityFailures ==
    { [op |-> "label_failed", status |-> "visionApiStatus"],
      [op |-> "object_failed", status |-> "visionApiStatus"],
      [op |-> "annotate_failed", status |-> "videoApiStatus"],
      [op |-> "recognize_failed", status |-> "speechApiStatus"],
      [op |-> "topics_failed", status |-> "topicsApiStatus"] }

StoreFailures == {"get_failed", "set_failed", "errset_failed"}

\* C7: when the external call of a capability (vision, video, speech, topic
\* generation) fails in an invocation whose store calls all succeed, the
\* invocation returns normally and the record holds error in the status
\* field of that capability.
C7_CapabilityErrorsRecorded ==
    \A p \in DOMAIN inv :
       LET i == inv[p] IN
       (Ended(i) /\ Calls(i.log, StoreFailures) = 0)
          => \A c \in CapabilityFailures :
                Called(i.log, c.op)
                   => /\ i.outcome = "returned"
                      /\ Has(StoredDoc(i.docId), c.status)
                      /\ StoredDoc(i.docId)[c.status] = "error"

\* ------------------------------------------------------------------------
\* C8
\* ------------------------------------------------------------------------
\* C8: a directly uploaded audio asset with no record, whose recognition
\* returns at least one result and whose joined, trimmed transcript is
\* empty, leaves a record with speechApiStatus no_transcription,
\* topicsApiStatus skipped_no_transcript and an empty topics list.
C8_EmptyTranscriptRecord ==
    \A p \in DOMAIN inv :
       LET i == inv[p]
           doc == StoredDoc(i.docId)
       IN
       (/\ Ended(i) /\ i.path = "audio" /\ DirectUpload(i) /\ ~HadRecord(i)
        /\ Called(i.log, "recognize") /\ Called(i.log, "set")
        /\ Len(i.raw.results) > 0 /\ NewTranscription(i.raw.results) = "")
          => /\ doc.speechApiStatus = "no_transcription"
             /\ doc.topicsApiStatus = "skipped_no_transcript"
             /\ Has(doc, "topics")
             /\ doc.topics = <<>>

\* ------------------------------------------------------------------------
\* C9
\* ------------------------------------------------------------------------
\* The entries of list s are distinct and none is empty.
DistinctNonEmpty(s) ==
    \A j, k \in DOMAIN s : s[j] # "" /\ (j # k => s[j] # s[k])

\* The position of the first occurrence of v in list s.
FirstAt(s, v) == CHOOSE k \in DOMAIN s : s[k] = v /\ \A j \in 1..(k - 1) : s[j] # v

\* List t holds exactly the distinct non-empty entries of list s, in the
\* order of their first occurrences in s.
FirstOccurrencesOf(t, s) ==
    /\ DistinctNonEmpty(t)
    /\ {t[k] : k \in DOMAIN t} = {s[k] : k \in DOMAIN s} \ {""}
    /\ \A j, k \in DOMAIN t : j < k => FirstAt(s, t[j]) < FirstAt(s, t[k])

\* C9: for every reply of video annotation with label and object lists,
\* the tags and object_tags the video path persists hold no duplicate and
\* no empty entry, hold each distinct description at the position of its
\* first occurrence, and videoApiStatus is success exactly when one of the
\* two lists is non-empty; labels Cat, Cat and object Ball give tags [Cat],
\* object_tags [Ball] and success.
C9_VideoTagsDeduplicated ==
    \A p \in DOMAIN inv :
       LET i == inv[p]
           doc == StoredDoc(i.docId)
       IN
       (/\ i.path = "video" /\ i.pc \in {"v_publish", "done", "catch"}
        /\ i.raw.kind = "annotated" /\ Called(i.log, "set") /\ ~Called(i.log, "errset"))
          => /\ FirstOccurrencesOf(doc.tags, i.raw.labels)
             /\ FirstOccurrencesOf(doc.object_tags, i.raw.objects)
             /\ doc.videoApiStatus
                   = (IF doc.tags # <<>> \/ doc.object_tags # <<>>
                      THEN "success" ELSE "no_results")
             /\ (i.raw.labels = <<"Cat", "Cat">> /\ i.raw.objects = <<"Ball">>)
                   => /\ doc.tags = <<"Cat">>
                      /\ doc.object_tags = <<"Ball">>
                      /\ doc.videoApiStatus = "success"

\* The video path has persisted the record for labels Cat, Cat and object
\* Ball and has published.
C9_Witness ==
    \E p \in DOMAIN inv :
       /\ Ended(inv[p]) /\ inv[p].path = "video" /\ Called(inv[p].log, "publish")
       /\ inv[p].raw.kind = "annotated"
       /\ inv[p].raw.labels = <<"Cat", "Cat">> /\ inv[p].raw.objects = <<"Ball">>
       /\ StoredDoc(inv[p].docId).tags = <<"Cat">>

\* ------------------------------------------------------------------------
\* C10
\* ------------------------------------------------------------------------
\* The record was left by a completed run of the image path on the
\* notification of invocation i with the vision results of i.
LeftBySameRun(doc, i) ==
    /\ Has(doc, "visionApiStatus") /\ Has(doc, "tags") /\ Has(doc, "object_tags")
    /\ doc.fileName = i.file.name
    /\ doc.processingStatus = "Completed"
    /\ doc.tags = FilterBoolean(i.raw.labels)
    /\ doc.object_tags = FilterBoolean(i.raw.objects)

\* C10: a second run of the image path on the same notification with the
\* same vision results leaves the tags, object_tags and visionApiStatus
\* the first run left.
C10_ImagePathIdempotent ==
    \A p \in DOMAIN inv :
       LET i == inv[p] IN
       (/\ Ended(i) /\ i.path = "image" /\ i.outcome = "returned"
        /\ HadRecord(i) /\ LeftBySameRun(PreDoc(i), i))
          => \A f \in {"tags", "object_tags", "visionApiStatus"} :
                SameField(PreDoc(i), StoredDoc(i.docId), f)

\* The image path has run a second time with the non-empty labels of the
\* first run.
C10_Witness ==
    \E p \in DOMAIN inv :
       /\ Ended(inv[p]) /\ inv[p].path = "image" /\ inv[p].outcome = "returned"
       /\ HadRecord(inv[p]) /\ LeftBySameRun(PreDoc(inv[p]), inv[p])
       /\ inv[p].seq = 2
       /\ inv[p].raw.labels = <<"Cat", "">>
       /\ StoredDoc(inv[p].docId).tags = <<"Cat">>

\* ------------------------------------------------------------------------
\* C11
\* ------------------------------------------------------------------------
\* The invocation handles a notification that signals deletion.
OfDeletion(i) == i.pc # "idle" /\ i.file.resourceState = "not_exists"

\* C11: an invocation for a notification that signals deletion has
\* returned normally without a call to the store or the queue, and no
\* step removes a record from the store.
C11_DeletionIsNoOp ==
    [][/\ DOMAIN store \subseteq DOMAIN store'
       /\ \A p \in DOMAIN inv :
             OfDeletion(inv'[p])
                => /\ inv'[p].pc = "done" /\ inv'[p].outcome = "returned"
                   /\ inv'[p].thrown = NoError
                   /\ inv'[p].log = <<>> /\ inv'[p].published = <<>>
                   /\ store' = store /\ queue' = queue]_vars

\* A deletion notification for a video whose record exists has been
\* handled, and the record is still there.
C11_Witness ==
    \E p \in DOMAIN inv :
       /\ OfDeletion(inv[p]) /\ Ended(inv[p])
       /\ inv[p].file.md5Hash = Hash1
       /\ LowercaseHex[Hash1] \in DOMAIN store
       /\ Has(store[LowercaseHex[Hash1]], "fileName")
       /\ store[LowercaseHex[Hash1]].fileName = inv[p].file.name

\* ------------------------------------------------------------------------
\* C12
\* ------------------------------------------------------------------------
\* The path of each content type of the notifications, by its prefix.
PathByPrefix ==
    [c \in {"audio/wav", "audio/ogg", "audio/flac", "video/mp4", "image/png",
            "application/pdf", Undefined} |->
        CASE c \in {"audio/wav", "audio/ogg", "audio/flac"} -> "audio"
          [] c = "video/mp4" -> "video"
          [] c = "image/png" -> "image"
          [] OTHER -> "none"]

\* The calls each path makes, the outer catch's write included.
PathCalls ==
    [audio |-> {"get", "get_failed", "download", "download_failed", "parse",
                "parse_failed", "recognize", "recognize_failed", "topics",
                "topics_failed", "cleanup", "set", "set_failed"}
               \cup ErrorStateWrites,
     video |-> {"get", "get_failed", "annotate", "annotate_failed", "set", "set_failed",
                "publish", "publish_failed"} \cup ErrorStateWrites,
     image |-> {"get", "get_failed", "label", "label_failed", "object", "object_failed",
                "set", "set_failed"} \cup ErrorStateWrites,
     none |-> {}]

\* The program positions of each path.
PathPositions ==
    [audio |-> {"a_get", "a_speech", "a_topics", "a_set", "catch", "done"},
     video |-> {"v_get", "v_annotate", "v_set", "v_publish", "catch", "done"},
     image |-> {"i_get", "i_label", "i_object", "i_set", "catch", "done"},
     none |-> {"done"}]

\* C12: an invocation for a non-deletion notification with a derivable
\* AssetId runs the path its content-type prefix selects and makes only
\* the calls of that path; for any other content type, a missing one
\* included, it has returned normally without a call to the store or the
\* queue.
C12_DispatchByContentType ==
    \A p \in DOMAIN inv :
       LET i == inv[p]
           path == PathByPrefix[i.file.contentType]
       IN
       (i.pc # "idle" /\ ~OfDeletion(i)
          /\ (FromDerivedAudio(i) \/ i.file.md5Hash \in DOMAIN LowercaseHex))
          => /\ i.path = path
             /\ i.pc \in PathPositions[path]
             /\ \A k \in DOMAIN i.log : i.log[k] \in PathCalls[path]
             /\ i.published # <<>> => path = "video"
             /\ path = "none" => /\ i.outcome = "returned" /\ i.thrown = NoError
                                 /\ i.log = <<>> /\ i.published = <<>>

\* A notification without content type has been dropped after an image was
\* processed under the same content hash.
C12_Witness ==
    \E p \in DOMAIN inv :
       /\ Ended(inv[p]) /\ ~OfDeletion(inv[p])
       /\ inv[p].file.contentType = Undefined /\ inv[p].file.md5Hash = Hash1
       /\ inv[p].path = "none"
       /\ LowercaseHex[Hash1] \in DOMAIN store
       /\ Has(store[LowercaseHex[Hash1]], "contentType")
       /\ store[LowercaseHex[Hash1]].contentType = "image/png"

\* ------------------------------------------------------------------------
\* C13
\* ------------------------------------------------------------------------
\* C13: an invocation that wrote the record and left overall status
\* Completed in it has returned without throwing; an invocation that
\* threw and whose error-state write succeeded leaves overall status
\* Failed; an invocation that threw leaves Completed only when it wrote
\* nothing and Completed was there before.
C13_CompletedOnlyWithoutThrow ==
    \A p \in DOMAIN inv :
       LET i == inv[p]
           doc == StoredDoc(i.docId)
           wrote == Called(i.log, "set") \/ Called(i.log, "errset")
       IN
       (i.pc # "idle" /\ i.path # "none") =>
          /\ (wrote /\ Has(doc, "processingStatus") /\ doc.processingStatus = "Completed")
                => i.pc = "done" /\ i.outcome = "returned"
          /\ (Ended(i) /\ i.outcome = "threw" /\ Called(i.log, "errset"))
                => Has(doc, "processingStatus") /\ doc.processingStatus = "Failed"
          /\ (Ended(i) /\ i.outcome = "threw" /\ ~wrote)
                => SameField(PreDoc(i), doc, "processingStatus")

\* An image-path invocation on a record with overall status Completed
\* threw after its error-state write succeeded.
C13_Witness ==
    \E p \in DOMAIN inv :
       /\ Ended(inv[p]) /\ inv[p].outcome = "threw" /\ inv[p].path = "image"
       /\ Called(inv[p].log, "errset")
       /\ HadRecord(inv[p]) /\ PreDoc(inv[p]).processingStatus = "Completed"
       /\ StoredDoc(inv[p].docId).processingStatus = "Failed"

\* ------------------------------------------------------------------------
\* C14
\* ------------------------------------------------------------------------
\* The calls of the extraction handler's try block, in order, for each way
\* the block can end.
ExtractionRuns ==
    { <<"download_failed">>,
      <<"download", "ffmpeg_exit_1">>,
      <<"download", "ffmpeg_spawn_error">>,
      <<"download", "ffmpeg", "upload_failed">>,
      <<"download", "ffmpeg", "upload">> }

\* The removals attempted at the end of log: the temporary video file,
\* and the temporary audio file when it exists.
EndsWithRemovals(log, audioFile) ==
    LET n == Len(log) IN
    IF audioFile
    THEN /\ n >= 3
         /\ SubSeq(log, n - 2, n) = <<"unlink_video", "stat_audio", "unlink_audio">>
    ELSE /\ n >= 2
         /\ SubSeq(log, n - 1, n) = <<"unlink_video", "stat_audio">>

\* C14: for a well-formed message the extraction handler uploads only
\* after a successful download and a transcoder exit with code 0; when
\* the download fails, the transcoder does not start or exits with
\* another code, it uploads nothing and throws; and however the try block
\* ends, the handler has attempted the removal of the temporary video file
\* and of the temporary audio file (when it exists) when it returns or
\* throws.
C14_ExtractionOrderAndCleanup ==
    LET e == ext
        n == Len(e.log)
        removals == IF e.audioFile THEN 3 ELSE 2
        run == SubSeq(e.log, 1, n - removals)
    IN
    (e.pc # "idle" /\ e.message \notin MalformedMessages)
       => /\ e.pc = "x_download" => e.log = <<>>
          /\ e.pc = "x_ffmpeg" => e.log = <<"download">>
          /\ e.pc = "x_upload" => e.log = <<"download", "ffmpeg">> /\ e.audioFile
          /\ e.pc = "done" =>
                /\ EndsWithRemovals(e.log, e.audioFile)
                /\ run \in ExtractionRuns
                /\ e.outcome = (IF run[Len(run)] = "upload" THEN "returned" ELSE "threw")
                /\ e.outcome = "threw" => e.message \in queue
                /\ run[Len(run)] = "upload" =>
                      \E o \in audioObjects :
                         o.name = JsonField(e.message.doc, "firestoreDocId") \o ".flac"

\* The transcoder exited with code 1 after writing a partial output file;
\* the handler threw after removing both temporary files.
C14_Witness ==
    /\ ext.pc = "done" /\ ext.outcome = "threw" /\ ext.audioFile
    /\ ext.log = <<"download", "ffmpeg_exit_1", "unlink_video", "stat_audio",
                    "unlink_audio">>
    /\ audioObjects = {}

\* ------------------------------------------------------------------------
\* C15
\* ------------------------------------------------------------------------
\* C15: for a malformed message (no data, data that is not JSON, a payload
\* without source container, source path or AssetId) the extraction
\* handler has returned normally without a download, a transcoder run or
\* an upload.
C15_MalformedMessageAcknowledged ==
    (ext.pc # "idle" /\ ext.message \in MalformedMessages)
       => /\ ext.pc = "done"
          /\ ext.outcome = "returned"
          /\ ext.log = <<>>
          /\ ext.message \notin queue

\* ------------------------------------------------------------------------
\* C16
\* ------------------------------------------------------------------------
StatusFields == {"visionApiStatus", "videoApiStatus", "speechApiStatus", "topicsApiStatus"}

\* The status fields the stage of each path sets.
StageStatusFields ==
    [audio |-> {"speechApiStatus", "topicsApiStatus"},
     video |-> {"videoApiStatus"},
     image |-> {"visionApiStatus"}]

\* C16: when no record exists for the AssetId, the record a successful
\* invocation of the audio, video or image path persists holds tags,
\* object_tags and topics, and holds pending in every capability status
\* the stage of that path does not set.
C16_NewRecordDefaults ==
    \A p \in DOMAIN inv :
       LET i == inv[p]
           doc == StoredDoc(i.docId)
       IN
       (Ended(i) /\ i.path \in DOMAIN StageStatusFields /\ i.outcome = "returned"
          /\ ~HadRecord(i) /\ Called(i.log, "set"))
          => /\ \A f \in {"tags", "object_tags", "topics"} : Has(doc, f)
             /\ \A f \in StatusFields \ StageStatusFields[i.path] :
                   Has(doc, f) /\ doc[f] = "pending"

\* ------------------------------------------------------------------------
\* C17
\* ------------------------------------------------------------------------
\* No entry occurs twice in list s.
NoDuplicates(s) == \A j, k \in DOMAIN s : j # k => s[j] # s[k]

\* C17: in every stored record, tags and object_tags hold no entry twice.
C17_StoredTagsDistinct ==
    \A id \in DOMAIN store :
       \A f \in {"tags", "object_tags"} :
          Has(store[id], f) => NoDuplicates(store[id][f])

\* ------------------------------------------------------------------------
\* C18
\* ------------------------------------------------------------------------
\* List s holds a non-empty string.
SomeNonEmpty(s) == \E k \in DOMAIN s : s[k] # ""

\* Every character of every transcript of results is white space.
AllWhiteSpace(results) ==
    \A k \in DOMAIN results :
       \A j \in 1..Len(results[k]) : CharAt(results[k], j) \in WhiteSpace

TopicCalls == {"topics", "topics_failed"}

\* C19: an audio-path invocation calls topic generation at most once, and
\* only after the speech recognition of the same invocation gave a
\* transcript that is non-empty after trimming; after a recognition with
\* no results or an empty transcript it never calls topic generation and
\* persists topicsApiStatus skipped_no_transcript.
C19_TopicGenerationGate ==
    \A p \in DOMAIN inv :
       LET i == inv[p]
           doc == StoredDoc(i.docId)
           noTranscript == Len(i.raw.results) = 0 \/ AllWhiteSpace(i.raw.results)
           asked == i.pc = "a_topics" \/ Calls(i.log, TopicCalls) > 0
       IN
       (i.pc # "idle" /\ i.path = "audio") =>
          /\ Calls(i.log, TopicCalls) <= 1
          /\ i.pc = "a_topics" => Calls(i.log, TopicCalls) = 0
          /\ asked => /\ Before(i.log, "recognize", TopicCalls)
                      /\ i.err = NoError => ~noTranscript
          /\ (Called(i.log, "recognize") /\ noTranscript /\ i.err = NoError) =>
                /\ ~asked
                /\ Called(i.log, "set") => doc.topicsApiStatus = "skipped_no_transcript"

\* A second run on an audio asset whose topics were generated before gets
\* a transcript of white space only and persists skipped_no_transcript.
C19_Witness ==
    \E p \in DOMAIN inv :
       /\ Ended(inv[p]) /\ inv[p].path = "audio" /\ Called(inv[p].log, "set")
       /\ HadRecord(inv[p]) /\ Has(PreDoc(inv[p]), "topicsApiStatus")
       /\ PreDoc(inv[p]).topicsApiStatus = "success"
       /\ inv[p].raw.results = <<" ", " ">>
       /\ StoredDoc(inv[p].docId).topicsApiStatus = "skipped_no_transcript"

\* ------------------------------------------------------------------------
\* C20
\* ------------------------------------------------------------------------
\* C20: when topic generation fails after a non-empty transcript, the
\* invocation returns normally unless the record write fails, and the
\* record it persists has the new transcription, speechApiStatus success,
\* topicsApiStatus error with the message of the error, and overall
\* status Completed.
C20_TopicFailureKeepsRecord ==
    \A p \in DOMAIN inv :
       LET i == inv[p]
           doc == StoredDoc(i.docId)
       IN
       (i.pc # "idle" /\ Called(i.log, "topics_failed")) =>
          /\ i.pc \in {"a_set", "done", "catch"}
          /\ i.pc = "a_set" => i.err = NoError /\ i.outcome = "none"
          /\ i.outcome = "threw" => Called(i.log, "set_failed")
          /\ Called(i.log, "set") =>
                /\ i.outcome = "returned" /\ i.thrown = NoError
                /\ doc.transcription # ""
                /\ doc.transcription = NewTranscription(i.raw.results)
                /\ doc.speechApiStatus = "success"
                /\ doc.topicsApiStatus = "error"
                /\ doc.topicsError = "Gemini API returned an empty or invalid response."
                /\ doc.processingStatus = "Completed"

\* Topic generation failed for the transcript of two results and the
\* record was persisted.
C20_Witness ==
    \E p \in DOMAIN inv :
       /\ Ended(inv[p]) /\ inv[p].outcome = "returned"
       /\ inv[p].log = <<"get", "download", "parse", "recognize", "topics_failed",
                         "cleanup", "set">>
       /\ inv[p].raw.results = <<"hi", "hi">>
       /\ StoredDoc(inv[p].docId).transcription = "hi\nhi"
       /\ StoredDoc(inv[p].docId).topicsApiStatus = "error"

\* ------------------------------------------------------------------------
\* C21
\* ------------------------------------------------------------------------
\* The pairs of codec and content type of the audio files that map to no
\* supported encoding, with the message of the error raised for them.
UnsupportedAudio ==
    (<<"Opus", "audio/ogg">> :> "Unsupported audio codec: Opus") @@
    (<<Undefined, "audio/ogg">> :> "Unsupported audio codec: undefined")

RecognizeCalls == {"recognize", "recognize_failed"}

\* C21: when codec and content type of the audio file map to no supported
\* encoding, speech recognition is not started, the temporary file cleanup
\* is attempted, and the merge write persists speechApiStatus error, the
\* message of the error and overall status Failed, after which the
\* invocation has returned normally; for any other audio file recognition
\* is started.
C21_UnsupportedCodecRecorded ==
    \A p \in DOMAIN inv :
       LET i == inv[p]
           doc == StoredDoc(i.docId)
           audio == <<i.raw.codec, i.file.contentType>>
       IN
       (i.pc # "idle" /\ i.path = "audio" /\ Called(i.log, "parse") /\ i.err = NoError)
          => IF audio \in DOMAIN UnsupportedAudio
             THEN /\ Calls(i.log, RecognizeCalls \cup TopicCalls) = 0
                  /\ i.pc \in {"a_set", "done"}
                  /\ Before(i.log, "parse", {"cleanup"})
                  /\ Before(i.log, "cleanup", {"set"})
                  /\ Called(i.log, "set") =>
                        /\ i.outcome = "returned" /\ i.thrown = NoError
                        /\ doc.speechApiStatus = "error"
                        /\ doc.speechError = UnsupportedAudio[audio]
                        /\ doc.processingStatus = "Failed"
             ELSE Calls(i.log, RecognizeCalls) = 1

\* An Ogg file with the Opus codec was recorded as a speech error and the
\* invocation returned.
C21_Witness ==
    \E p \in DOMAIN inv :
       /\ Ended(inv[p]) /\ inv[p].outcome = "returned"
       /\ inv[p].file.contentType = "audio/ogg" /\ inv[p].raw.codec = "Opus"
       /\ inv[p].log = <<"get", "download", "parse", "cleanup", "set">>
       /\ StoredDoc(inv[p].docId).speechError = "Unsupported audio codec: Opus"
       /\ StoredDoc(inv[p].docId).processingStatus = "Failed"

\* ------------------------------------------------------------------------
\* C22
\* ------------------------------------------------------------------------
\* The fields of the other capabilities, for each path.
OtherCapabilityFields ==
    [image |-> {"transcription", "topics", "speechApiStatus", "topicsApiStatus",
                "videoApiStatus"},
     video |-> {"transcription", "topics", "speechApiStatus", "topicsApiStatus",
                "visionApiStatus"},
     audio |-> {"tags", "object_tags", "visionApiStatus", "videoApiStatus"}]

\* C22: an invocation that runs with no other invocation on an existing
\* record leaves the fields of the other capabilities as they were: the
\* image path transcription, topics, speechApiStatus, topicsApiStatus and
\* videoApiStatus; the video path transcription, topics, speechApiStatus,
\* topicsApiStatus and visionApiStatus when present; the audio path tags,
\* object_tags, visionApiStatus and videoApiStatus.
C22_OtherCapabilitiesUntouched ==
    \A p \in DOMAIN inv :
       LET i == inv[p]
           doc == StoredDoc(i.docId)
       IN
       (i.pc # "idle" /\ i.path \in DOMAIN OtherCapabilityFields /\ HadRecord(i) /\ i.alone)
          => \A f \in OtherCapabilityFields[i.path] :
                IF i.path = "video"
                THEN Has(PreDoc(i), f) => SameField(PreDoc(i), doc, f)
                ELSE SameField(PreDoc(i), doc, f)

\* The image path has persisted tags on a record that holds a
\* transcription and its topics, and they are still there.
C22_Witness ==
    \E p \in DOMAIN inv :
       /\ Ended(inv[p]) /\ inv[p].path = "image" /\ inv[p].outcome = "returned"
       /\ HadRecord(inv[p]) /\ inv[p].alone
       /\ Has(PreDoc(inv[p]), "transcription") /\ PreDoc(inv[p]).transcription = "hi"
       /\ Has(PreDoc(inv[p]), "topics") /\ PreDoc(inv[p]).topics = <<"greeting">>
       /\ StoredDoc(inv[p].docId).transcription = "hi"
       /\ StoredDoc(inv[p].docId).tags = <<"Cat">>

\* ------------------------------------------------------------------------
\* C23
\* ------------------------------------------------------------------------
\* The primary file info of the event of invocation i.
EventSourceInfo(i) ==
    [fileName |-> i.file.name, bucket |-> i.file.bucket,
     contentType |-> i.file.contentType, uploadTime |-> i.file.timeCreated,
     mediaUri |-> "gs://" \o i.file.bucket \o "/" \o i.file.name,
     version |-> i.file.generation]

\* C23: after a video-path or image-path invocation, or an audio-path
\* invocation for a direct upload, has persisted its record (also when the
\* speech stage ended in error), fileName, bucket, contentType, uploadTime,
\* mediaUri and version of the record are those of the current event; an
\* audio-path invocation for an object of the derived-audio bucket that
\* runs alone leaves them as they were.
C23_SourceInfoRefreshed ==
    \A p \in DOMAIN inv :
       LET i == inv[p]
           doc == StoredDoc(i.docId)
       IN
       (i.pc # "idle" /\ Called(i.log, "set") /\ i.alone) =>
          /\ (i.path \in {"video", "image"} \/ (i.path = "audio" /\ DirectUpload(i)))
                => \A f \in SourceInfoFields : Has(doc, f) /\ doc[f] = EventSourceInfo(i)[f]
          /\ (i.path = "audio" /\ FromDerivedAudio(i))
                => \A f \in SourceInfoFields : SameField(PreDoc(i), doc, f)

\* A directly uploaded audio file whose speech stage ended in error was
\* persisted on the record of an image with the same content hash.
C23_Witness ==
    \E p \in DOMAIN inv :
       /\ Ended(inv[p]) /\ inv[p].path = "audio" /\ DirectUpload(inv[p])
       /\ Called(inv[p].log, "set") /\ Called(inv[p].log, "recognize_failed")
       /\ HadRecord(inv[p]) /\ Has(PreDoc(inv[p]), "fileName")
       /\ PreDoc(inv[p]).fileName = "photo.png"
       /\ StoredDoc(inv[p].docId).fileName = "note.wav"
       /\ StoredDoc(inv[p].docId).speechApiStatus = "error"

\* ------------------------------------------------------------------------
\* C24
\* ------------------------------------------------------------------------
\* Slot p takes the step of its record write, successfully.
WriteStep(p) ==
    /\ inv[p].pc \in {"a_set", "v_set", "i_set"}
    /\ inv'[p].pc \in {"done", "v_publish"}

\* C24: the record write of an invocation is a merge of the data the
\* invocation holds, whatever was written since it read: each field of
\* that data, values copied from a stale read included, holds the writer's
\* value after the write, and each other field of the record keeps the
\* value an earlier writer left; nothing makes the read and the write of
\* an invocation one step.
C24_LaterWriteWinsPerField ==
    [][\A p \in DOMAIN inv :
          WriteStep(p) =>
             LET data == inv[p].meta
                 old  == StoredDoc(inv[p].docId)
                 new  == StoredDoc(inv[p].docId)'
             IN  /\ DOMAIN new = DOMAIN old \cup DOMAIN data
                 /\ \A f \in DOMAIN data : new[f] = data[f]
                 /\ \A f \in DOMAIN old \ DOMAIN data : new[f] = old[f]
                 /\ inv'[p].wrote = data]_vars

\* Two invocations for the same AssetId have both written after both had
\* read: the audio path wrote first, the video path last. speechApiStatus,
\* written by both, holds the value the video path copied from its stale
\* read; speechError, written by the audio path only, is still there.
C24_Witness ==
    \E p, q \in DOMAIN inv :
       LET doc == StoredDoc(inv[p].docId) IN
       /\ p # q /\ inv[p].docId = inv[q].docId
       /\ inv[p].path = "video" /\ Called(inv[p].log, "set")
       /\ inv[q].path = "audio" /\ Called(inv[q].log, "set") /\ Ended(inv[q])
       /\ Has(inv[q].wrote, "speechError") /\ ~Has(inv[p].wrote, "speechError")
       /\ inv[q].wrote.speechApiStatus = "error"
       /\ inv[p].wrote.speechApiStatus = "pending"
       /\ doc.speechApiStatus = "pending"
       /\ Has(doc, "speechError") /\ doc.speechError = inv[q].wrote.speechError

\* ------------------------------------------------------------------------
\* C25
\* ------------------------------------------------------------------------
\* Slot p takes the step of the outer catch and its write succeeds.
CatchWriteStep(p) ==
    /\ inv[p].pc = "catch"
    /\ Called(inv'[p].log, "errset")

\* C25: the record write of the video path leaves overall status In
\* Progress and the video path writes nothing after it when it returns
\* normally; an overall status In Progress changes only in the write of an
\* invocation for that AssetId, to Completed by the record write of the
\* audio or image path or to Failed.
C25_VideoLeavesInProgress ==
    [][/\ \A p \in DOMAIN inv :
             /\ (WriteStep(p) /\ inv[p].path = "video")
                   => StoredDoc(inv[p].docId)'.processingStatus = "In Progress"
             /\ (inv[p].pc = "v_publish" /\ inv'[p].outcome = "returned")
                   => /\ store' = store
                      /\ inv[p].alone =>
                            StoredDoc(inv[p].docId).processingStatus = "In Progress"
       /\ \A id \in DOMAIN store :
             (/\ Has(store[id], "processingStatus")
              /\ store[id].processingStatus = "In Progress"
              /\ store'[id].processingStatus # "In Progress")
                => \E p \in DOMAIN inv :
                      /\ inv[p].docId = id
                      /\ \/ /\ WriteStep(p) /\ inv[p].path \in {"audio", "image"}
                            /\ store'[id].processingStatus \in {"Completed", "Failed"}
                         \/ /\ CatchWriteStep(p)
                            /\ store'[id].processingStatus = "Failed"]_vars

\* A video-path invocation on a record with overall status Completed has
\* returned normally and the record is In Progress.
C25_Witness ==
    \E p \in DOMAIN inv :
       /\ Ended(inv[p]) /\ inv[p].path = "video" /\ inv[p].outcome = "returned"
       /\ Called(inv[p].log, "publish")
       /\ HadRecord(inv[p]) /\ Has(PreDoc(inv[p]), "processingStatus")
       /\ PreDoc(inv[p]).processingStatus = "Completed"
       /\ StoredDoc(inv[p].docId).processingStatus = "In Progress"
       /\ StoredDoc(inv[p].docId).videoApiStatus = "success"

\* ------------------------------------------------------------------------
\* C26
\* ------------------------------------------------------------------------
\* C26: in every stored record, speechApiStatus success comes with a
\* transcription that is a non-empty string.
C26_SuccessHasTranscription ==
    \A id \in DOMAIN store :
       (Has(store[id], "speechApiStatus") /\ store[id].speechApiStatus = "success")
          => Has(store[id], "transcription") /\ store[id].transcription # ""

\* ------------------------------------------------------------------------
\* C27
\* ------------------------------------------------------------------------
ErrorStateFields == {"processingError", "processingStatus", "processedAt"}

\* The failing external calls of the video and image paths.
VisualCallFailures == {"annotate_failed", "label_failed", "object_failed"}

\* C27: an invocation whose video or vision call failed modifies nothing
\* in the record but processingError, overall status and processedAt:
\* every other field of an existing record keeps its value, no field is
\* added, and when no record existed the record created holds those three
\* fields only (no record is created when the error-state write fails).
C27_FailedVisualCallFrame ==
    \A p \in DOMAIN inv :
       LET i == inv[p]
           pre == PreDoc(i)
           doc == StoredDoc(i.docId)
       IN
       (i.pc # "idle" /\ i.alone /\ Calls(i.log, VisualCallFailures) > 0) =>
          /\ i.path \in {"video", "image"}
          /\ ~Called(i.log, "set")
          /\ \A f \in DOMAIN pre \ ErrorStateFields : Has(doc, f) /\ doc[f] = pre[f]
          /\ IF Called(i.log, "errset")
             THEN /\ DOMAIN doc = DOMAIN pre \cup ErrorStateFields
                  /\ doc.processingStatus = "Failed"
                  /\ doc.processingError = i.thrown
                  /\ doc.processedAt = i.seq
             ELSE /\ Exists(i.docId) <=> HadRecord(i)
                  /\ doc = pre

\* The label detection of an image whose record holds tags and a vision
\* status failed; the error state was written and the tags are kept.
C27_Witness ==
    \E p \in DOMAIN inv :
       /\ Ended(inv[p]) /\ inv[p].path = "image" /\ inv[p].alone
       /\ inv[p].log = <<"get", "label_failed", "errset">>
       /\ HadRecord(inv[p]) /\ Has(PreDoc(inv[p]), "tags")
       /\ PreDoc(inv[p]).tags = <<"Cat">>
       /\ Has(PreDoc(inv[p]), "visionApiStatus")
       /\ PreDoc(inv[p]).visionApiStatus = "success"
       /\ Has(StoredDoc(inv[p].docId), "tags")
       /\ StoredDoc(inv[p].docId).tags = <<"Cat">>
       /\ Has(StoredDoc(inv[p].docId), "visionApiStatus")
       /\ StoredDoc(inv[p].docId).visionApiStatus = "success"
       /\ Has(StoredDoc(inv[p].docId), "processingStatus")
       /\ StoredDoc(inv[p].docId).processingStatus = "Failed"

\* ------------------------------------------------------------------------
\* C28
\* ------------------------------------------------------------------------
\* C28: no step removes a record or a field of a record: a field that is
\* in the record, processingError, speechError and topicsError included,
\* is in it after every later step of any invocation.
C28_FieldsNeverRemoved ==
    [][\A id \in DOMAIN store :
          /\ id \in DOMAIN store'
          /\ DOMAIN store[id] \subseteq DOMAIN store'[id]]_vars

\* A record still holds the speechError of a failed invocation after a
\* later audio-path invocation ended with overall status Completed and
\* speechApiStatus success.
C28_Witness ==
    \E p \in DOMAIN inv :
       LET doc == StoredDoc(inv[p].docId) IN
       /\ Ended(inv[p]) /\ inv[p].path = "audio" /\ inv[p].outcome = "returned"
       /\ Called(inv[p].log, "topics") /\ Called(inv[p].log, "set")
       /\ HadRecord(inv[p]) /\ Has(PreDoc(inv[p]), "speechError")
       /\ doc.processingStatus = "Completed"
       /\ doc.speechApiStatus = "success"
       /\ Has(doc, "speechError") /\ doc.speechError = PreDoc(inv[p]).speechError

====
